---------------------------- MODULE Spec2Model ----------------------------
(***************************************************************************)
(* skc: two-bit nucleotide codec (src/src/lib.rs) and the shared k-mer     *)
(* pipeline built on it (src/src/main.rs).                                 *)
(*                                                                         *)
(* Representation.  A byte is a number in 0..255.  A vector register       *)
(* (__m128i, __m256i) is the sequence of its 16 or 32 bytes, lowest byte   *)
(* first.  A fixed-width integer (i32, u32, u64) is the sequence of its    *)
(* bytes, least significant first (x86 is little-endian), so a u64 is a    *)
(* sequence of 8 bytes and a Vec<u64> a sequence of such words.  Byte j    *)
(* (0-based) of a sequence v is v[j + 1].                                  *)
(***************************************************************************)
EXTENDS Integers, Sequences, FiniteSets, TLC

VARIABLES
    host,          \* CPU features of the machine (is_x86_feature_detected!)
    pc,            \* position of the running scenario
    nuc,           \* encode's input: the nucleotide bytes
    packed,        \* encode(nuc) as the dispatcher returned it: Vec<u64>
    enc,           \* the three encode tiers' results on nuc
    bits,          \* decode's input buffer: &[u64]
    len,           \* decode's requested length
    decoded,       \* decode(bits, len): [fault, tier, out]
    dec,           \* the three decode tiers' results on (bits, len)
    k,             \* main: args.kmer
    target,        \* main: records of the target file, <<name, sequence>>
    query,         \* main: records of the query file
    rec,           \* main: index of the record being read (1-based)
    i,             \* main: the inner loop's index into the record's sequence
    target_kmers,  \* main: HashMap<u64, KmerInfo>
    query_kmers,   \* main: HashMap<u64, KmerInfo>
    windows,       \* history: the windows handed to encode, in order
    pending,       \* main: keys of query_kmers the output loop has yet to visit
    shared,        \* main: the number logged as "shared k-mers"
    emitted,       \* main: the records written to the output, in order
    dirty          \* keys so far that carry bytes of uninitialised memory

vars == <<host, pc, nuc, packed, enc, bits, len, decoded, dec, k, target, query,
          rec, i, target_kmers, query_kmers, windows, pending, shared, emitted,
          dirty>>

codecVars == <<nuc, packed, enc, bits, len, decoded, dec>>
mainVars == <<k, target, query, rec, i, target_kmers, query_kmers, windows,
              pending, shared, emitted, dirty>>

(***************************************************************************)
(* Bounds of the model.                                                    *)
(***************************************************************************)
MaxLen == 66        \* longest sequence handed to encode
MaxRot == 1         \* rotations of each motif the inputs are built from
MaxWords == 2       \* longest packed buffer handed to decode, in words
MaxOver == 2        \* how far past the buffer's capacity decode's length goes
MaxK == 4           \* largest k of the k-mer pipeline
MaxDirty == 1       \* keys of one run that carry bytes of uninitialised memory

(***************************************************************************)
(* Bytes and bit operations on them.                                       *)
(***************************************************************************)
Pow2(n) == 2 ^ n

\* a sequence given by a rule, as the tuple of its elements
Tup(f) == f \o <<>>

Bit(x, n) == (x \div Pow2(n)) % 2

And8(a, b) ==
    Bit(a, 0) * Bit(b, 0) + 2 * Bit(a, 1) * Bit(b, 1)
    + 4 * Bit(a, 2) * Bit(b, 2) + 8 * Bit(a, 3) * Bit(b, 3)
    + 16 * Bit(a, 4) * Bit(b, 4) + 32 * Bit(a, 5) * Bit(b, 5)
    + 64 * Bit(a, 6) * Bit(b, 6) + 128 * Bit(a, 7) * Bit(b, 7)

Or8(a, b) == a + b - And8(a, b)

\* x | y on two integers of the same width
OrBytes(x, y) == Tup([j \in 1..Len(x) |-> Or8(x[j], y[j])])

\* x << (8 * n) on an integer of Len(x) bytes (the high bytes fall off)
ShlBytes(x, n) == Tup([j \in 1..Len(x) |-> IF j - n >= 1 THEN x[j - n] ELSE 0])

\* `x as uN` for a wider N: zero extension to n bytes
ZeroExtend(x, n) == Tup([j \in 1..n |-> IF j <= Len(x) THEN x[j] ELSE 0])

\* `x as u32` from a u64: truncation to the low n bytes
Truncate(x, n) == Tup([j \in 1..n |-> x[j]])

Zeros(n) == Tup([j \in 1..n |-> 0])

\* bytes [from, from + n) of a byte sequence (0-based from)
Slice(s, from, n) == Tup([j \in 1..n |-> s[from + j]])

\* memory m with the bytes w stored at byte offset off
Store(m, off, w) ==
    Tup([j \in 1..Len(m) |-> IF j > off /\ j <= off + Len(w) THEN w[j - off] ELSE m[j]])

\* a byte buffer read as a Vec of n-byte integers
Words(m, n) == Tup([w \in 1..(Len(m) \div n) |-> Slice(m, (w - 1) * n, n)])

(***************************************************************************)
(* ASCII                                                                   *)
(***************************************************************************)
cA == 65
cC == 67
cG == 71
cT == 84
cU == 85
ca == 97
cc == 99
cg == 103
ct == 116
cu == 117
Alphabet == {cA, cC, cG, cT, cU, ca, cc, cg, ct, cu}

(***************************************************************************)
(* x86 intrinsics used by the vector tiers (Intel Intrinsics Guide); the   *)
(* 256-bit forms act on each 128-bit lane as the 128-bit forms do.         *)
(***************************************************************************)
\* _mm256_loadu_si256 / _mm_loadu_si128 (ptr.offset(t)): chunk t of w bytes
mm_loadu(s, t, w) == Slice(s, t * w, w)

\* _mm256_permute4x64_epi64(v, imm): qword d of the result is qword
\* (imm >> 2d) & 3 of v
mm256_permute4x64_epi64(v, imm) ==
    Tup([j \in 1..32 |->
        LET d == (j - 1) \div 8
            src == (imm \div Pow2(2 * d)) % 4
        IN  v[src * 8 + ((j - 1) % 8) + 1]])

\* _mm256_slli_epi64 / _mm_slli_epi64 (v, s): each 64-bit element << s, s < 8
mm_slli_epi64(v, s) ==
    Tup([j \in 1..Len(v) |->
        ((v[j] * Pow2(s)) % 256)
        + (IF (j - 1) % 8 = 0 THEN 0 ELSE v[j - 1] \div Pow2(8 - s))])

\* _mm256_srli_epi16 / _mm_srli_epi16 (v, s): each 16-bit element >> s, s < 8
mm_srli_epi16(v, s) ==
    Tup([j \in 1..Len(v) |->
        (v[j] \div Pow2(s))
        + (IF (j - 1) % 2 = 0 THEN (v[j + 1] * Pow2(8 - s)) % 256 ELSE 0)])

\* _mm256_unpackhi_epi8 / _mm_unpackhi_epi8 (a, b): per lane, the high 8
\* bytes of a and b interleaved, a's first
mm_unpackhi_epi8(a, b) ==
    Tup([j \in 1..Len(a) |->
        LET lane == (j - 1) \div 16
            t == (j - 1) % 16
            src == lane * 16 + 8 + (t \div 2) + 1
        IN  IF t % 2 = 0 THEN a[src] ELSE b[src]])

\* _mm256_unpacklo_epi8 / _mm_unpacklo_epi8 (a, b): per lane, the low 8 bytes
mm_unpacklo_epi8(a, b) ==
    Tup([j \in 1..Len(a) |->
        LET lane == (j - 1) \div 16
            t == (j - 1) % 16
            src == lane * 16 + (t \div 2) + 1
        IN  IF t % 2 = 0 THEN a[src] ELSE b[src]])

\* _mm256_movemask_epi8 / _mm_movemask_epi8 (v): an i32 whose bit j is the top
\* bit of byte j of v (the bits above Len(v) are zero)
mm_movemask_epi8(v) ==
    Tup([w \in 1..4 |->
        IF 8 * w <= Len(v)
        THEN Bit(v[8 * w - 7], 7) + 2 * Bit(v[8 * w - 6], 7)
             + 4 * Bit(v[8 * w - 5], 7) + 8 * Bit(v[8 * w - 4], 7)
             + 16 * Bit(v[8 * w - 3], 7) + 32 * Bit(v[8 * w - 2], 7)
             + 64 * Bit(v[8 * w - 1], 7) + 128 * Bit(v[8 * w], 7)
        ELSE 0])

\* _mm256_shuffle_epi8 / _mm_shuffle_epi8 (a, m): per lane, byte j is 0 when
\* the top bit of m's byte j is set, else byte (m[j] & 15) of a's lane
mm_shuffle_epi8(a, m) ==
    Tup([j \in 1..Len(a) |->
        IF Bit(m[j], 7) = 1 THEN 0
        ELSE a[((j - 1) \div 16) * 16 + (m[j] % 16) + 1]])

\* _mm256_blend_epi16 / _mm_blend_epi16 (a, b, imm): per lane, 16-bit element
\* t comes from b when bit t of imm is set, else from a
mm_blend_epi16(a, b, imm) ==
    Tup([j \in 1..Len(a) |->
        IF Bit(imm, ((j - 1) % 16) \div 2) = 1 THEN b[j] ELSE a[j]])

\* _mm256_and_si256 / _mm_and_si128
mm_and_si(a, b) == Tup([j \in 1..Len(a) |-> And8(a[j], b[j])])

\* _mm256_set1_epi64x(x) / _mm_set1_epi32(x): x broadcast to w bytes
mm_set1(x, w) == Tup([j \in 1..w |-> x[((j - 1) % Len(x)) + 1]])

(***************************************************************************)
(* encode_lut and BYTE_LUT                                                 *)
(***************************************************************************)
BYTE_LUT(b) ==
    CASE b = ca -> 0
      [] b = ct -> 2
      [] b = cu -> 2
      [] b = cc -> 1
      [] b = cg -> 3
      [] b = cA -> 0
      [] b = cT -> 2
      [] b = cU -> 2
      [] b = cC -> 1
      [] b = cG -> 3
      [] OTHER -> 0

\* number of u64 words of the result: len / 32, plus one when len % 32 /= 0
NumWords(n) == (n \div 32) + (IF n % 32 = 0 THEN 0 ELSE 1)

\* one pass of the loop body of encode_lut, for index t (0-based), on the
\* word res[offset]: res[offset] | (BYTE_LUT[nuc[t]] as u64) << shift
EncodeLutStep(word, s, t) ==
    LET shift == (t % 32) * 2
        val == BYTE_LUT(s[t + 1]) * Pow2(shift % 8)
    IN  [word EXCEPT ![(shift \div 8) + 1] = Or8(@, val)]

\* the passes of the loop for the indices t .. last, which share one word
RECURSIVE EncodeLutLoop(_, _, _, _)
EncodeLutLoop(word, s, t, last) ==
    IF t > last THEN word
    ELSE EncodeLutLoop(EncodeLutStep(word, s, t), s, t + 1, last)

\* vec![0u64; words], then the loop over 0..nuc.len(); index t works on word
\* t / 32 alone, so word w is the loop's passes for 32w .. 32w + 31
encode_lut(s) ==
    Tup([w \in 1..NumWords(Len(s)) |->
        LET first == 32 * (w - 1)
            last == IF first + 31 < Len(s) THEN first + 31 ELSE Len(s) - 1
        IN  EncodeLutLoop(Zeros(8), s, first, last)])

(***************************************************************************)
(* Vector encode tiers.  alloc::alloc returns uninitialised memory: its    *)
(* content is whatever the allocator left there, here every byte = fill,   *)
(* a value the caller of the tier does not control.                        *)
(***************************************************************************)
\* (A request of size 0, made for an empty input, is given an empty block;
\* the bytes handed to BYTE_LUT are below 128, the size of the table.)
alloc(size, fill) == Tup([j \in 1..size |-> fill])

\* the loop body of encode_movemask_avx: the u64 packed from chunk t
EncodeAvxChunk(s, t) ==
    LET v0 == mm_loadu(s, t, 32)
        v == mm256_permute4x64_epi64(v0, 216)      \* 0b11011000
        lo == mm_slli_epi64(v, 6)
        hi == mm_slli_epi64(v, 5)
        a == ZeroExtend(mm_movemask_epi8(mm_unpackhi_epi8(lo, hi)), 8)
        b == ZeroExtend(mm_movemask_epi8(mm_unpacklo_epi8(lo, hi)), 8)
    IN  OrBytes(ShlBytes(a, 4), b)                 \* (a << 32) | b

RECURSIVE EncodeAvxLoop(_, _, _, _)
EncodeAvxLoop(mem, s, t, end_idx) ==
    IF t >= end_idx THEN mem
    ELSE EncodeAvxLoop(Store(mem, 8 * t, EncodeAvxChunk(s, t)), s, t + 1, end_idx)

encode_movemask_avx(s, fill) ==
    LET end_idx == Len(s) \div 32
        n == end_idx + (IF Len(s) % 32 = 0 THEN 0 ELSE 1)
        mem == EncodeAvxLoop(alloc(n * 8, fill), s, 0, end_idx)
        rest == Slice(s, end_idx * 32, Len(s) - end_idx * 32)
    IN  Words(IF Len(s) % 32 > 0
              THEN Store(mem, 8 * end_idx, encode_lut(rest)[1])
              ELSE mem, 8)

\* the loop body of encode_movemask_sse: the u32 packed from chunk t
EncodeSseChunk(s, t) ==
    LET v == mm_loadu(s, t, 16)
        lo == mm_slli_epi64(v, 6)
        hi == mm_slli_epi64(v, 5)
        a == mm_movemask_epi8(mm_unpackhi_epi8(lo, hi))
        b == mm_movemask_epi8(mm_unpacklo_epi8(lo, hi))
    IN  OrBytes(ShlBytes(a, 2), b)                 \* ((a << 16) | b) as u32

RECURSIVE EncodeSseLoop(_, _, _, _)
EncodeSseLoop(mem, s, t, end_idx) ==
    IF t >= end_idx THEN mem
    ELSE EncodeSseLoop(Store(mem, 4 * t, EncodeSseChunk(s, t)), s, t + 1, end_idx)

encode_movemask_sse(s, fill) ==
    LET end_idx == Len(s) \div 16
        n == (Len(s) \div 32) + (IF Len(s) % 32 = 0 THEN 0 ELSE 1)
        mem == EncodeSseLoop(alloc(n * 8, fill), s, 0, end_idx)
        rest == Slice(s, end_idx * 16, Len(s) - end_idx * 16)
    IN  Words(IF Len(s) % 16 > 0
              THEN Store(mem, 4 * end_idx, Truncate(encode_lut(rest)[1], 4))
              ELSE mem, 8)

(***************************************************************************)
(* The machines encode and decode can find themselves on: with avx2        *)
(* (which implies sse4.1 and sse2), with sse4.1 but no avx2, with sse2     *)
(* only, and with none of them (an old x86, or another architecture, where *)
(* the cfg removes the vector tiers).                                      *)
(***************************************************************************)
Hosts ==
    { [avx2 |-> TRUE, sse41 |-> TRUE, sse2 |-> TRUE],
      [avx2 |-> FALSE, sse41 |-> TRUE, sse2 |-> TRUE],
      [avx2 |-> FALSE, sse41 |-> FALSE, sse2 |-> TRUE],
      [avx2 |-> FALSE, sse41 |-> FALSE, sse2 |-> FALSE] }

encode(h, s, fill) ==
    IF h.avx2 THEN encode_movemask_avx(s, fill)
    ELSE IF h.sse2 THEN encode_movemask_sse(s, fill)
    ELSE encode_lut(s)

(***************************************************************************)
(* Vector decode tiers                                                     *)
(***************************************************************************)
\* _mm256_set_epi32(e7, ..., e0) / _mm_set_epi32(e3, ..., e0): the arguments
\* are given highest element first; es lists them as the source does
mm_set_epi32(es) ==
    Tup([j \in 1..(4 * Len(es)) |-> es[Len(es) - ((j - 1) \div 4)][((j - 1) % 4) + 1]])

\* an i32 constant whose four bytes are all b (0x07070707, ...)
Rep4(b) == <<b, b, b, b>>

\* `b as i32` for a byte b
I32(b) == <<b, 0, 0, 0>>

\* _mm256_set1_epi16(0b0000110000000011) / _mm_set1_epi16: bytes 0x03, 0x0C
lo_mask(w) == mm_set1(<<3, 12>>, w)

\* (b'A' as i32) | ((b'C' as i32) << 8) | ((b'T' as i32) << 16) | ((b'G' as i32) << 24)
lut_i32 ==
    OrBytes(OrBytes(I32(cA), ShlBytes(I32(cC), 1)),
            OrBytes(ShlBytes(I32(cT), 2), ShlBytes(I32(cG), 3)))

\* DecodeShuffle with the blend taking the shifted copy in the even 16-bit
\* elements instead of the odd ones (0b01010101)
DecodeShuffle_blend(v, shuffle_mask, lut) ==
    LET v1 == mm_shuffle_epi8(v, shuffle_mask)
        v2 == mm_srli_epi16(v1, 4)
        v3 == mm_blend_epi16(v1, v2, 85)
        v4 == mm_and_si(v3, lo_mask(Len(v)))
    IN  mm_shuffle_epi8(lut, v4)

\* the shuffle, shift, blend, mask and lookup both decode tiers apply to the
\* broadcast value v
DecodeShuffle(v, shuffle_mask, lut) ==
    LET v1 == mm_shuffle_epi8(v, shuffle_mask)
        v2 == mm_srli_epi16(v1, 4)
        v3 == mm_blend_epi16(v1, v2, 170)          \* 0b10101010
        v4 == mm_and_si(v3, lo_mask(Len(v)))
    IN  mm_shuffle_epi8(lut, v4)

shuffle_mask_avx ==
    mm_set_epi32(<<Rep4(7), Rep4(6), Rep4(5), Rep4(4), Rep4(3), Rep4(2), Rep4(1), Rep4(0)>>)

lut_avx ==
    mm_set_epi32(<<I32(cG), I32(cT), I32(cC), lut_i32, I32(cG), I32(cT), I32(cC), lut_i32>>)

RECURSIVE DecodeAvxLoop(_, _, _)
DecodeAvxLoop(mem, b, t) ==
    IF t >= Len(b) THEN mem
    ELSE DecodeAvxLoop(
            Store(mem, 32 * t,
                  DecodeShuffle(mm_set1(b[t + 1], 32), shuffle_mask_avx, lut_avx)),
            b, t + 1)

\* Vec::from_raw_parts(ptr, n, bits.len() * 32): the first n bytes of the block
decode_shuffle_avx(b, n, fill) ==
    Slice(DecodeAvxLoop(alloc(Len(b) * 32, fill), b, 0), 0, n)

shuffle_mask_sse == mm_set_epi32(<<Rep4(3), Rep4(2), Rep4(1), Rep4(0)>>)

lut_sse == mm_set_epi32(<<I32(cG), I32(cT), I32(cC), lut_i32>>)

\* bits.as_ptr() as *const i32, element t: bytes 4t .. 4t + 3 of the buffer
BitsAsI32(b, t) == Slice(b[(t \div 2) + 1], 4 * (t % 2), 4)

RECURSIVE DecodeSseLoop(_, _, _)
DecodeSseLoop(mem, b, t) ==
    IF t >= Len(b) * 2 THEN mem
    ELSE DecodeSseLoop(
            Store(mem, 16 * t,
                  DecodeShuffle(mm_set1(BitsAsI32(b, t), 16), shuffle_mask_sse, lut_sse)),
            b, t + 1)

decode_shuffle_sse(b, n, fill) ==
    Slice(DecodeSseLoop(alloc(Len(b) * 32, fill), b, 0), 0, n)

(***************************************************************************)
(* decode_lut and BITS_LUT                                                 *)
(***************************************************************************)
\* BITS_LUT with the entries of 0b01 and 0b10 exchanged
BITS_LUT_swapped(c) ==
    CASE c = 0 -> cA
      [] c = 1 -> cT
      [] c = 2 -> cC
      [] c = 3 -> cG

BITS_LUT(c) ==
    CASE c = 0 -> cA
      [] c = 2 -> cT
      [] c = 1 -> cC
      [] c = 3 -> cG

\* (curr >> shift) & 0b11 for a u64 curr and an even shift < 64
Field(curr, shift) == (curr[(shift \div 8) + 1] \div Pow2(shift % 8)) % 4

\* the loop body of decode_lut for index t (0-based): the byte stored at
\* res_ptr.offset(t)
DecodeLutByte(b, t) ==
    LET offset == t \div 32                         \* i >> 5
        shift == (t % 32) * 2                       \* (i & 31) << 1
        curr == b[offset + 1]
    IN  BITS_LUT(Field(curr, shift))

\* the loop stores one byte at each index of 0..len, so the block alloc
\* returned is overwritten whole
decode_lut(b, n, fill) ==
    LET mem == alloc(n, fill)
    IN  Tup([j \in 1..Len(mem) |-> DecodeLutByte(b, j - 1)])

\* decode with the length check off by one (>=)
decode_ge(h, b, n, fill) ==
    IF n >= Len(b) * 32
    THEN [fault |-> TRUE, tier |-> "none", out |-> <<>>]
    ELSE IF h.avx2
    THEN [fault |-> FALSE, tier |-> "avx", out |-> decode_shuffle_avx(b, n, fill)]
    ELSE IF h.sse41
    THEN [fault |-> FALSE, tier |-> "sse", out |-> decode_shuffle_sse(b, n, fill)]
    ELSE [fault |-> FALSE, tier |-> "lut", out |-> decode_lut(b, n, fill)]

\* decode: the length check, then the dispatch.  The result records whether
\* the call panicked, which tier ran, and the bytes returned.
decode(h, b, n, fill) ==
    IF n > Len(b) * 32
    THEN [fault |-> TRUE, tier |-> "none", out |-> <<>>]
    ELSE IF h.avx2
    THEN [fault |-> FALSE, tier |-> "avx", out |-> decode_shuffle_avx(b, n, fill)]
    ELSE IF h.sse41
    THEN [fault |-> FALSE, tier |-> "sse", out |-> decode_shuffle_sse(b, n, fill)]
    ELSE [fault |-> FALSE, tier |-> "lut", out |-> decode_lut(b, n, fill)]

(***************************************************************************)
(* Inputs.  A sequence is a motif repeated from a rotation to a length, so  *)
(* that every length up to the bound occurs and the bytes of a chunk differ *)
(* from lane to lane (the motif lengths are odd).                           *)
(***************************************************************************)
Gen(m, r, n) == Tup([j \in 1..n |-> m[((j - 1 + r) % Len(m)) + 1]])

Motifs ==
    << <<cG>>, <<cT>>,
       <<cA, cC, cG, cT, cU, ca, cc, cg, ct, cu, cG>>,
       <<cA, cc, cG, ct, ca, cC, cg>>,
       <<cA, 78, cC, 110, cG, 82, cT, 45, cU>> >>    \* with 'N', 'n', 'R', '-'

Inputs ==
    { Gen(Motifs[m], r, n) : m \in 1..Len(Motifs), r \in 0..MaxRot, n \in 0..MaxLen }

\* what alloc::alloc can return: zeroed memory, or memory some earlier
\* allocation left its bytes in
Garbage == {0, 165}

ByteMotifs ==
    << <<27, 228, 255, 0, 108, 177, 147, 57, 198>>,
       <<255, 170, 85>> >>

Buffers ==
    { Words(Gen(ByteMotifs[m], r, 8 * w), 8) :
        m \in 1..Len(ByteMotifs), r \in 0..MaxRot, w \in 0..MaxWords }

\* HashMap::new()
EmptyMap == [h \in {} |-> 0]

NoResult == [fault |-> FALSE, tier |-> "none", out |-> <<>>]
NoTiers == [avx |-> <<>>, sse |-> <<>>, lut |-> <<>>]

MainIdle ==
    /\ k = 1 /\ target = <<>> /\ query = <<>> /\ rec = 1 /\ i = 0
    /\ target_kmers = EmptyMap /\ query_kmers = EmptyMap /\ windows = <<>>
    /\ pending = {} /\ shared = 0 /\ emitted = <<>> /\ dirty = 0

(***************************************************************************)
(* The codec run on a sequence: encode(nuc) through the dispatcher, then   *)
(* decode(encode(nuc), nuc.len()); and the three encode tiers side by side *)
(* on the same input.                                                      *)
(***************************************************************************)
Init ==
    /\ host \in Hosts
    /\ nuc \in Inputs
    /\ pc = "start"
    /\ packed = <<>> /\ enc = NoTiers
    /\ bits = <<>> /\ len = 0 /\ decoded = NoResult /\ dec = NoTiers
    /\ MainIdle

Encode ==
    /\ pc = "start"
    /\ \E fill \in Garbage : packed' = encode(host, nuc, fill)
    /\ pc' = "encoded"
    /\ UNCHANGED <<host, nuc, enc, bits, len, decoded, dec, mainVars>>

EncodeTiers ==
    /\ pc = "start"
    /\ \E fill \in Garbage :
          enc' = [avx |-> encode_movemask_avx(nuc, fill),
                  sse |-> encode_movemask_sse(nuc, fill),
                  lut |-> encode_lut(nuc)]
    /\ pc' = "tiers"
    /\ UNCHANGED <<host, nuc, packed, bits, len, decoded, dec, mainVars>>

DecodePacked ==
    /\ pc = "encoded"
    /\ bits' = packed
    /\ len' = Len(nuc)
    /\ \E fill \in Garbage : decoded' = decode(host, packed, Len(nuc), fill)
    /\ pc' = "decoded"
    /\ UNCHANGED <<host, nuc, packed, enc, dec, mainVars>>

Next == Encode \/ EncodeTiers \/ DecodePacked

Spec == Init /\ [][Next]_vars

(***************************************************************************)
(* decode on a packed buffer and a length, through the dispatcher; and the *)
(* three decode tiers side by side where the length check lets them run.   *)
(***************************************************************************)
InitDecode ==
    /\ host \in Hosts
    /\ bits \in Buffers
    /\ len \in 0..(32 * MaxWords + MaxOver)
    /\ len <= 32 * Len(bits) + MaxOver
    /\ pc = "start"
    /\ nuc = <<>> /\ packed = <<>> /\ enc = NoTiers
    /\ decoded = NoResult /\ dec = NoTiers
    /\ MainIdle

Decode ==
    /\ pc = "start"
    /\ \E fill \in Garbage : decoded' = decode(host, bits, len, fill)
    /\ pc' = "decoded"
    /\ UNCHANGED <<host, nuc, packed, enc, bits, len, dec, mainVars>>

DecodeTiers ==
    /\ pc = "start"
    /\ len <= 32 * Len(bits)
    /\ \E fill \in Garbage :
          dec' = [avx |-> decode_shuffle_avx(bits, len, fill),
                  sse |-> decode_shuffle_sse(bits, len, fill),
                  lut |-> decode_lut(bits, len, fill)]
    /\ pc' = "tiers"
    /\ UNCHANGED <<host, nuc, packed, enc, bits, len, decoded, mainVars>>

NextDecode == Decode \/ DecodeTiers

SpecDecode == InitDecode /\ [][NextDecode]_vars

(***************************************************************************)
(* Properties of the codec                                                 *)
(***************************************************************************)
\* a sequence over {A, T, C, G} in either case
IsACGT(s) == \A j \in 1..Len(s) : s[j] \in {cA, cT, cC, cG, ca, ct, cc, cg}

\* a sequence over {A, T, U, C, G} in either case
InAlphabet(s) == \A j \in 1..Len(s) : s[j] \in Alphabet

\* the uppercase letter of an ASCII letter
Upper(b) == IF b >= 97 THEN b - 32 ELSE b

\* bit n (0-based) of a u64
WordBit(word, n) == Bit(word[(n \div 8) + 1], n % 8)

\* the 2-bit field of base j (0-based) of a packed buffer: the bits
\* 2 * (j mod 32) and 2 * (j mod 32) + 1 of word j div 32
BaseCode(buf, j) ==
    WordBit(buf[(j \div 32) + 1], 2 * (j % 32))
    + 2 * WordBit(buf[(j \div 32) + 1], 2 * (j % 32) + 1)

\* the letter of a 2-bit code: 00 -> A, 01 -> C, 10 -> T, 11 -> G
Letter(c) == <<cA, cC, cT, cG>>[c + 1]

\* C1: decode(encode(s), length(s)) is s in uppercase, for every s over
\* {A,T,C,G} in any case, on every machine (every pair of tiers the two
\* dispatchers select).
C1_RoundTrip ==
    (pc = "decoded" /\ IsACGT(nuc)) =>
        /\ ~decoded.fault
        /\ Len(decoded.out) = Len(nuc)
        /\ \A j \in 1..Len(nuc) : decoded.out[j] = Upper(nuc[j])

\* C1's case: a sequence of mixed case that straddles a word, encoded by the
\* narrow vector tier into a buffer that differs from the scalar encoder's,
\* and decoded by the narrow vector tier
C1_Witness ==
    /\ pc = "decoded" /\ IsACGT(nuc) /\ Len(nuc) > 32
    /\ \E j \in 1..Len(nuc) : nuc[j] >= 97
    /\ decoded.tier = "sse"
    /\ packed # encode_lut(nuc)

\* C2: on every sequence over the alphabet, of every length, the wide and the
\* narrow vector encoders return the words the scalar encoder returns.
C2_EncodeTiersAgree ==
    (pc = "tiers" /\ InAlphabet(nuc)) =>
        /\ enc.avx = enc.lut
        /\ enc.sse = enc.lut

\* the wide vector encoder alone agrees with the scalar encoder
AvxAgrees == (pc = "tiers" /\ InAlphabet(nuc)) => enc.avx = enc.lut

\* the narrow vector encoder agrees with the scalar encoder where it writes
\* both halves of the last word: a length that is 0 or above 16 modulo 32
SseAgreesOnFullWords ==
    (pc = "tiers" /\ InAlphabet(nuc) /\ (Len(nuc) % 32 = 0 \/ Len(nuc) % 32 > 16)) =>
        enc.sse = enc.lut

\* C3: for every buffer and every length the buffer covers, the two vector
\* decoders return the bytes the scalar decoder returns: len bytes, byte j the
\* letter of the 2-bit field of base j.
C3_DecodeTiersAgree ==
    pc = "tiers" =>
        /\ dec.avx = dec.lut
        /\ dec.sse = dec.lut
        /\ Len(dec.lut) = len
        /\ \A j \in 0..(len - 1) : dec.lut[j + 1] = Letter(BaseCode(bits, j))

\* C3's case: a length one past a word, whose bytes show all four letters
C3_Witness ==
    /\ pc = "tiers" /\ len = 33 /\ Len(dec.sse) = 33
    /\ {dec.avx[j] : j \in 1..len} = {cA, cC, cT, cG}

\* C4: decode panics, returning nothing and running no tier, exactly when the
\* length exceeds 32 times the number of words; otherwise a tier runs and
\* returns exactly len bytes.
C4_DecodeFault ==
    pc = "decoded" =>
        /\ decoded.fault <=> (len > 32 * Len(bits))
        /\ decoded.fault => (decoded.tier = "none" /\ decoded.out = <<>>)
        /\ ~decoded.fault => (decoded.tier # "none" /\ Len(decoded.out) = len)

\* C4's case: a call with a length one past the capacity of two words has
\* panicked
C4_Witness ==
    /\ pc = "decoded" /\ Len(bits) = 2 /\ len = 65
    /\ decoded.fault

\* C9: in every tier, the bits of the last word of an encode result above
\* twice the number of bases the word holds are zero (for a window of k < 32
\* bases: the bits 2k and above of its key).
C9_ZeroFill ==
    (pc = "tiers" /\ InAlphabet(nuc) /\ Len(nuc) % 32 # 0) =>
        \A r \in {enc.avx, enc.sse, enc.lut} :
            \A n \in (2 * (Len(nuc) % 32))..63 : WordBit(r[Len(r)], n) = 0

\* the scalar and the wide vector encoder do zero the bits above the bases
ZeroFillLutAvx ==
    (pc = "tiers" /\ InAlphabet(nuc) /\ Len(nuc) % 32 # 0) =>
        \A r \in {enc.avx, enc.lut} :
            \A n \in (2 * (Len(nuc) % 32))..63 : WordBit(r[Len(r)], n) = 0

\* C10: a byte below 128 that is no letter of the alphabet is packed as 00,
\* the code of A, wherever it stands and whichever tier packs it, and decodes
\* to 'A'.
C10_InvalidAsA ==
    /\ pc \in {"encoded", "decoded"} =>
          \A j \in 1..Len(nuc) :
              nuc[j] \notin Alphabet => BaseCode(packed, j - 1) = 0
    /\ pc = "decoded" =>
          \A j \in 1..Len(nuc) :
              nuc[j] \notin Alphabet => decoded.out[j] = cA

(***************************************************************************)
(* KmerInfo: count and positions, a Default of zero and empty, add_pos and *)
(* count().                                                                *)
(***************************************************************************)
KmerInfoDefault == [count |-> 0, positions |-> <<>>]

add_pos(info, chrom, at) ==
    [count |-> info.count + 1, positions |-> Append(info.positions, <<chrom, at>>)]

count(info) == info.count

(***************************************************************************)
(* main: the pass over the target, the pass over the query, the output.    *)
(***************************************************************************)
\* seq.get(i..i + k) is Some(..): the range lies within the sequence
HasWindow_short(seq, at, width) == at + width < Len(seq)

HasWindow(seq, at, width) == at + width <= Len(seq)

\* index.insert(h, ..) in place of entry(h).or_default(): an entry already
\* there is replaced by a fresh one
IndexInsert_replace(index, h, chrom, at) ==
    [x \in DOMAIN index \cup {h} |->
        IF x = h THEN add_pos(KmerInfoDefault, chrom, at) ELSE index[x]]

\* index.entry(h).or_default().add_pos(chrom, i)
IndexInsert(index, h, chrom, at) ==
    [x \in DOMAIN index \cup {h} |->
        IF x = h
        THEN add_pos(IF h \in DOMAIN index THEN index[h] ELSE KmerInfoDefault, chrom, at)
        ELSE index[x]]

sACGTACGT == <<cA, cC, cG, cT, cA, cC, cG, cT>>
sACGTTTTT == <<cA, cC, cG, cT, cT, cT, cT, cT>>

\* the files of a run: <<target, query>>, each a sequence of records
\* <<name, sequence>>
Files ==
    { << << <<"chr1", sACGTACGT>> >>,
         << <<"q1", sACGTTTTT>> >> >>,
      << << <<"chr1", <<cA, cC, cG>> >>, <<"chr2", <<cg, ct, ca, cC, cG, cT>> >> >>,
         << <<"q1", <<cT, cT>> >>, <<"q2", <<cC, cG, cU, cA, cc, cg>> >> >> >> }

\* 1 when the key h computed for kmer carries bytes of the memory alloc
\* returned (it is not the key zeroed memory gives), else 0
Residue(h0, kmer, h) == IF h = encode(h0, kmer, 0)[1] THEN 0 ELSE 1

InitMain ==
    /\ host \in Hosts
    /\ k \in 1..MaxK
    /\ \E f \in Files : target = f[1] /\ query = f[2]
    /\ pc = "target" /\ rec = 1 /\ i = 0
    /\ target_kmers = EmptyMap /\ query_kmers = EmptyMap
    /\ windows = <<>> /\ pending = {} /\ shared = 0 /\ emitted = <<>> /\ dirty = 0
    /\ nuc = <<>> /\ packed = <<>> /\ enc = NoTiers
    /\ bits = <<>> /\ len = 0 /\ decoded = NoResult /\ dec = NoTiers

\* one pass of the inner loop over the target's record rec
TargetStep ==
    /\ pc = "target" /\ rec <= Len(target) /\ i < Len(target[rec][2])
    /\ LET chrom == target[rec][1]
           seq == target[rec][2]
       IN  IF HasWindow(seq, i, k)
           THEN \E fill \in Garbage :
                  LET kmer == Slice(seq, i, k)
                      h == encode(host, kmer, fill)[1]
                      d == Residue(host, kmer, h)
                  IN  /\ dirty + d <= MaxDirty
                      /\ dirty' = dirty + d
                      /\ target_kmers' = IndexInsert(target_kmers, h, chrom, i)
                      /\ windows' = Append(windows,
                             [file |-> "target", rec |-> rec, at |-> i,
                              kmer |-> kmer, key |-> h])
           ELSE UNCHANGED <<target_kmers, windows, dirty>>
    /\ i' = i + 1
    /\ UNCHANGED <<host, pc, codecVars, k, target, query, rec, query_kmers,
                   pending, shared, emitted>>

\* the inner loop is over: the next record of the target
TargetNextRecord ==
    /\ pc = "target" /\ rec <= Len(target) /\ i = Len(target[rec][2])
    /\ rec' = rec + 1 /\ i' = 0
    /\ UNCHANGED <<host, pc, codecVars, k, target, query, target_kmers,
                   query_kmers, windows, pending, shared, emitted, dirty>>

\* the target is read: open the query
TargetDone ==
    /\ pc = "target" /\ rec > Len(target)
    /\ pc' = "query" /\ rec' = 1 /\ i' = 0
    /\ UNCHANGED <<host, codecVars, k, target, query, target_kmers,
                   query_kmers, windows, pending, shared, emitted, dirty>>

\* one pass of the inner loop over the query's record rec
QueryStep ==
    /\ pc = "query" /\ rec <= Len(query) /\ i < Len(query[rec][2])
    /\ LET chrom == query[rec][1]
           seq == query[rec][2]
       IN  IF HasWindow(seq, i, k)
           THEN \E fill \in Garbage :
                  LET kmer == Slice(seq, i, k)
                      h == encode(host, kmer, fill)[1]
                      d == Residue(host, kmer, h)
                  IN  /\ dirty + d <= MaxDirty
                      /\ dirty' = dirty + d
                      /\ query_kmers' =
                             IF h \in DOMAIN target_kmers
                             THEN IndexInsert(query_kmers, h, chrom, i)
                             ELSE query_kmers
                      /\ windows' = Append(windows,
                             [file |-> "query", rec |-> rec, at |-> i,
                              kmer |-> kmer, key |-> h])
           ELSE UNCHANGED <<query_kmers, windows, dirty>>
    /\ i' = i + 1
    /\ UNCHANGED <<host, pc, codecVars, k, target, query, rec, target_kmers,
                   pending, shared, emitted>>

QueryNextRecord ==
    /\ pc = "query" /\ rec <= Len(query) /\ i = Len(query[rec][2])
    /\ rec' = rec + 1 /\ i' = 0
    /\ UNCHANGED <<host, pc, codecVars, k, target, query, target_kmers,
                   query_kmers, windows, pending, shared, emitted, dirty>>

\* the query is read: log query_kmers.len() and start the output loop
QueryDone ==
    /\ pc = "query" /\ rec > Len(query)
    /\ shared' = Cardinality(DOMAIN query_kmers)
    /\ pending' = DOMAIN query_kmers
    /\ pc' = "output"
    /\ UNCHANGED <<host, codecVars, k, target, query, rec, i, target_kmers,
                   query_kmers, windows, emitted, dirty>>

\* one pass of the output loop, for an entry of query_kmers (a HashMap yields
\* its entries in an order of its own); the unwrap of a missing target entry
\* and a faulting decode end the run
Emit ==
    /\ pc = "output"
    /\ \E h \in pending : \E fill \in Garbage :
          LET kmer == decode(host, <<h>>, k, fill)
          IN  IF kmer.fault \/ h \notin DOMAIN target_kmers
              THEN /\ pc' = "panic"
                   /\ UNCHANGED <<pending, emitted>>
              ELSE /\ emitted' = Append(emitted,
                          [key |-> h,
                           tcount |-> count(target_kmers[h]),
                           qcount |-> count(query_kmers[h]),
                           tpos |-> target_kmers[h].positions,
                           qpos |-> query_kmers[h].positions,
                           seq |-> kmer.out])
                   /\ pending' = pending \ {h}
                   /\ pc' = pc
    /\ UNCHANGED <<host, codecVars, k, target, query, rec, i, target_kmers,
                   query_kmers, windows, shared, dirty>>

\* the output loop is over: Ok(())
Finish ==
    /\ pc = "output" /\ pending = {}
    /\ pc' = "done"
    /\ UNCHANGED <<host, codecVars, mainVars>>

NextMain ==
    \/ TargetStep \/ TargetNextRecord \/ TargetDone
    \/ QueryStep \/ QueryNextRecord \/ QueryDone
    \/ Emit \/ Finish

SpecMain == InitMain /\ [][NextMain]_vars

(***************************************************************************)
(* Properties of the k-mer pipeline                                        *)
(***************************************************************************)
\* the windows of record r of a file for width k: one at each offset
\* 0 .. n - k, in increasing order (none when n < k)
WindowsOf(file, recs, r) ==
    LET seq == recs[r][2]
        n == IF Len(seq) >= k THEN Len(seq) - k + 1 ELSE 0
    IN  [j \in 1..n |->
            [file |-> file, rec |-> r, at |-> j - 1,
             kmer |-> [t \in 1..k |-> seq[j - 1 + t]]]]

\* the windows of the records 1 .. r, record after record
RECURSIVE WindowsUpTo(_, _, _)
WindowsUpTo(file, recs, r) ==
    IF r = 0 THEN <<>>
    ELSE WindowsUpTo(file, recs, r - 1) \o WindowsOf(file, recs, r)

\* the windows a pass has met when it stands at offset upto of record r
WindowsMet(file, recs, r, upto) ==
    IF r > Len(recs) THEN WindowsUpTo(file, recs, Len(recs))
    ELSE WindowsUpTo(file, recs, r - 1)
         \o SelectSeq(WindowsOf(file, recs, r), LAMBDA w : w.at < upto)

\* the windows encoded so far, without their keys
Encoded ==
    [j \in 1..Len(windows) |->
        [file |-> windows[j].file, rec |-> windows[j].rec, at |-> windows[j].at,
         kmer |-> windows[j].kmer]]

\* the (name, offset) pairs of the windows of a file whose key is h, in the
\* order the pass met them
Occurrences(file, recs, h) ==
    LET hits == SelectSeq(windows, LAMBDA w : w.file = file /\ w.key = h)
    IN  [j \in 1..Len(hits) |-> <<recs[hits[j].rec][1], hits[j].at>>]

\* the keys of the windows of a file
KeysOf(file) == {windows[j].key : j \in {x \in 1..Len(windows) : windows[x].file = file}}

\* C5: the two passes encode exactly the windows seq[i..i+k] for i = 0..n-k of
\* each record, in increasing order of i, one one-word key per window; a
\* record shorter than k gives no window and no entry of the index.
C5_Windows ==
    /\ Encoded =
         CASE pc = "target" -> WindowsMet("target", target, rec, i)
           [] pc = "query" ->
                WindowsUpTo("target", target, Len(target))
                \o WindowsMet("query", query, rec, i)
           [] OTHER ->
                WindowsUpTo("target", target, Len(target))
                \o WindowsUpTo("query", query, Len(query))
    /\ \A j \in 1..Len(windows) : Len(windows[j].key) = 8
    /\ \A h \in DOMAIN target_kmers : \A j \in 1..Len(target_kmers[h].positions) :
          \E r \in 1..Len(target) :
              /\ target[r][1] = target_kmers[h].positions[j][1]
              /\ Len(target[r][2]) >= k

\* C5's case: both passes are over, the target's first record is shorter than
\* k and gave no window, its second record gave the windows at 0, 1 and 2
C5_Witness ==
    /\ pc = "done" /\ k = 4 /\ Len(target) = 2 /\ Len(target[1][2]) < k
    /\ \A j \in 1..Len(windows) : ~(windows[j].file = "target" /\ windows[j].rec = 1)
    /\ \E j \in 1..Len(windows) :
          windows[j].file = "target" /\ windows[j].rec = 2 /\ windows[j].at = 2
    /\ \E j \in 1..Len(windows) : windows[j].file = "query"

\* what C6 says of every run: the keys written are the keys both files have,
\* their number is the count logged, each is an entry of the target index and
\* its record carries the two occurrence counts; the run does not panic
MatchingIsIntersection ==
    /\ pc # "panic"
    /\ pc = "done" =>
          /\ {emitted[j].key : j \in 1..Len(emitted)} = KeysOf("target") \cap KeysOf("query")
          /\ shared = Cardinality(KeysOf("target") \cap KeysOf("query"))
          /\ Len(emitted) = shared
          /\ \A j \in 1..Len(emitted) :
                /\ emitted[j].key \in DOMAIN target_kmers
                /\ emitted[j].tcount = Len(Occurrences("target", target, emitted[j].key))
                /\ emitted[j].qcount = Len(Occurrences("query", query, emitted[j].key))

\* the run of C6's example: target "ACGTACGT", query "ACGTTTTT", k = 4
IsExample ==
    /\ k = 4
    /\ target = << <<"chr1", sACGTACGT>> >>
    /\ query = << <<"q1", sACGTTTTT>> >>

\* C6: the keys of the records written, whose number is the count logged, are
\* the keys both files have; each is an entry of the target index, its record
\* carries the two occurrence counts, and the run does not panic.  Target
\* "ACGTACGT", query "ACGTTTTT", k = 4 share one key.
C6_Matching ==
    /\ MatchingIsIntersection
    /\ (pc = "done" /\ IsExample) => shared = 1

\* C6's example where no key carries uninitialised memory
ExampleSharesOne == (pc = "done" /\ IsExample /\ dirty = 0) => shared = 1

\* C7: in every state of a pass, each key of an index has a count equal to
\* the length of its positions, and its positions are the (name, offset)
\* pairs inserted for it, in the order of insertion.
C7_IndexConsistent ==
    /\ \A h \in DOMAIN target_kmers :
          /\ count(target_kmers[h]) = Len(target_kmers[h].positions)
          /\ target_kmers[h].positions = Occurrences("target", target, h)
    /\ \A h \in DOMAIN query_kmers :
          /\ count(query_kmers[h]) = Len(query_kmers[h].positions)
          /\ query_kmers[h].positions = Occurrences("query", query, h)

\* C7's case: a key inserted twice into the target index, from the offsets 0
\* and 4 of one record, and a key inserted more than once into the query index
C7_Witness ==
    /\ pc = "done"
    /\ \E h \in DOMAIN target_kmers :
          target_kmers[h].positions = << <<"chr1", 0>>, <<"chr1", 4>> >>
    /\ \E h \in DOMAIN query_kmers : count(query_kmers[h]) >= 2

\* the base a byte of the alphabet stands for: the letter in uppercase, U read
\* as T
Base(b) == IF Upper(b) = cU THEN cT ELSE Upper(b)

Bases(kmer) == [j \in 1..Len(kmer) |-> Base(kmer[j])]

\* C8: two windows of k bases have different keys exactly when their base
\* sequences differ; two occurrences of one window have one key.
C8_KeyInjective ==
    \A a, b \in 1..Len(windows) :
        (windows[a].key # windows[b].key)
            <=> (Bases(windows[a].kmer) # Bases(windows[b].kmer))

\* C8 where no key carries uninitialised memory
KeyInjectiveClean == dirty = 0 => C8_KeyInjective

\* the scalar encoder packs every byte that is no letter of the alphabet as 00
LutInvalidAsA ==
    pc = "tiers" =>
        \A j \in 1..Len(nuc) :
            nuc[j] \notin Alphabet => BaseCode(enc.lut, j - 1) = 0

=============================================================================
